---- MODULE Spec2Model ----
(***************************************************************************)
(* paast (and3rson/paast, main.go): a paste service.  POST / stores the    *)
(* request payload under the next ordinal of a file-backed counter and     *)
(* answers with the hashid of that ordinal; GET /{hash} serves the stored  *)
(* bytes; POST is wrapped in a per-host cooldown (RateLimit).              *)
(*                                                                         *)
(* Conventions of this model                                               *)
(*  - a rune / byte of text is its code point (97 is "a", 48 is "0");      *)
(*    identifiers and the counter file are sequences of code points;       *)
(*  - a paste payload is a run-length sequence <<[b |-> byte, n |-> k]>>,  *)
(*    so that a payload of MaxBodyLen bytes is one value;                  *)
(*  - time is counted in ticks of 1/TicksPerSecond second.                 *)
(***************************************************************************)
EXTENDS Integers, Sequences, FiniteSets, TLC

(***************************************************************************)
(* Program constants (main.go 24-27, 57, 89-92)                            *)
(***************************************************************************)
MaxBodyLen == 1048576

TicksPerSecond == 2

PasteCooldownSeconds == 5

PasteCooldown == PasteCooldownSeconds * TicksPerSecond

\* "abcdefghijklmnopqrstuvwxyz1234567890"
Alphabet ==
    << 97, 98, 99, 100, 101, 102, 103, 104, 105, 106, 107, 108, 109,
       110, 111, 112, 113, 114, 115, 116, 117, 118, 119, 120, 121, 122,
       49, 50, 51, 52, 53, 54, 55, 56, 57, 48 >>

\* os.Getenv("ID_SALT") of a process started without ID_SALT
idSalt == << >>

MinLength == 3

(***************************************************************************)
(* Sequence helpers                                                        *)
(***************************************************************************)
Range(s) == { s[i] : i \in 1..Len(s) }

IndexOf(s, x) == CHOOSE i \in 1..Len(s) : s[i] = x /\ \A j \in 1..(i - 1) : s[j] # x

Swap(s, i, j) == [s EXCEPT ![i] = s[j], ![j] = s[i]]

Min(a, b) == IF a <= b THEN a ELSE b

Take(s, k) == SubSeq(s, 1, Min(k, Len(s)))

Drop(s, k) == SubSeq(s, Min(k, Len(s)) + 1, Len(s))

(***************************************************************************)
(* The identifier codec: github.com/speps/go-hashids/v2 as NewHttpRoutes   *)
(* configures it (salt idSalt, Alphabet, MinLength).                       *)
(***************************************************************************)
\* "cfhistuCFHISTU"
sepsOriginal == << 99, 102, 104, 105, 115, 116, 117, 67, 70, 72, 73, 83, 84, 85 >>

\* consistentShuffleInPlace: i runs from len-1 down to 1 (0-based), v over the salt
RECURSIVE ShuffleFrom(_, _, _, _, _)
ShuffleFrom(a, salt, i, v, p) ==
    IF i <= 0 THEN a
    ELSE LET p2 == p + salt[v + 1]
             j  == (salt[v + 1] + v + p2) % i
         IN ShuffleFrom(Swap(a, i + 1, j + 1), salt, i - 1, (v + 1) % Len(salt), p2)

consistentShuffle(a, salt) ==
    IF Len(salt) = 0 THEN a ELSE ShuffleFrom(a, salt, Len(a) - 1, 0, 0)

\* NewWithData, step by step.  The separators that are in the alphabet,
\* shuffled, and the alphabet without separators:
SepsInAlphabet ==
    consistentShuffle(SelectSeq(sepsOriginal, LAMBDA c : c \in Range(Alphabet)), idSalt)

AlphabetNoSeps == SelectSeq(Alphabet, LAMBDA c : c \notin Range(sepsOriginal))

\* sepsLength: ceil(len(alphabet) / 3.5), at least 2
SepsLength(alphabetLen) ==
    IF (2 * alphabetLen + 6) \div 7 = 1 THEN 2 ELSE (2 * alphabetLen + 6) \div 7

\* the separators topped up from, or cut down to, sepsLength when there are
\* fewer than one per 3.5 runes of the alphabet: <<seps, alphabet>>
BalanceSeps(seps, alphabet, sepsLength) ==
    IF ~(Len(seps) = 0 \/ 2 * Len(alphabet) > 7 * Len(seps)) THEN << seps, alphabet >>
    ELSE IF sepsLength > Len(seps)
    THEN << seps \o Take(alphabet, sepsLength - Len(seps)),
            Drop(alphabet, sepsLength - Len(seps)) >>
    ELSE << Take(seps, sepsLength), alphabet >>

\* the guards cut from the alphabet (from the separators of a tiny alphabet)
CutGuards(seps, alphabet, guardCount) ==
    IF Len(alphabet) < 3
    THEN [alphabet |-> alphabet, seps |-> Drop(seps, guardCount),
          guards |-> Take(seps, guardCount)]
    ELSE [alphabet |-> Drop(alphabet, guardCount), seps |-> seps,
          guards |-> Take(alphabet, guardCount)]

\* guardCount: ceil(len(alphabet) / 12) of the shuffled alphabet
WithGuards(seps, alphabet) == CutGuards(seps, alphabet, (Len(alphabet) + 11) \div 12)

ShuffleBalanced(balanced) == WithGuards(balanced[1], consistentShuffle(balanced[2], idSalt))

HashidData ==
    ShuffleBalanced(BalanceSeps(SepsInAlphabet, AlphabetNoSeps, SepsLength(Len(AlphabetNoSeps))))

\* hash: the digits of input in base len(alphabet), most significant first
RECURSIVE hash(_, _)
hash(input, alphabet) ==
    LET r == << alphabet[(input % Len(alphabet)) + 1] >>
    IN IF input \div Len(alphabet) = 0 THEN r
       ELSE hash(input \div Len(alphabet), alphabet) \o r

\* unhash: <<TRUE, number>>, or <<FALSE, 0>> on a rune outside the alphabet
RECURSIVE unhashFrom(_, _, _)
unhashFrom(input, alphabet, acc) ==
    IF input = << >> THEN << TRUE, acc >>
    ELSE IF Head(input) \notin Range(alphabet) THEN << FALSE, 0 >>
    ELSE unhashFrom(Tail(input), alphabet,
                    acc * Len(alphabet) + (IndexOf(alphabet, Head(input)) - 1))

unhash(input, alphabet) == unhashFrom(input, alphabet, 0)

\* splitRunes: the pieces of input between runes of seps, empty pieces kept
\* (computed by halves: the pieces of the two halves, the last piece of the left
\* half joined to the first of the right one)
RECURSIVE splitRunes(_, _)
splitRunes(input, seps) ==
    IF Len(input) = 0 THEN << << >> >>
    ELSE IF Len(input) = 1
    THEN (IF input[1] \in Range(seps) THEN << << >>, << >> >> ELSE << input >>)
    ELSE LET h == Len(input) \div 2
             l == splitRunes(SubSeq(input, 1, h), seps)
             r == splitRunes(SubSeq(input, h + 1, Len(input)), seps)
         IN SubSeq(l, 1, Len(l) - 1) \o << l[Len(l)] \o r[1] >> \o Tail(r)

RECURSIVE NumbersHash(_, _)
NumbersHash(numbers, i) ==
    IF i > Len(numbers) THEN 0
    ELSE (numbers[i] % (i - 1 + 100)) + NumbersHash(numbers, i + 1)

\* the loop of EncodeInt64 over the numbers: <<result, alphabet>>.  Each round
\* shuffles the alphabet by lottery + salt + alphabet, appends the hash of the
\* number and, between two numbers, a separator.
RECURSIVE EncodeLoop(_, _, _, _, _, _)
EncodeAppend(numbers, i, lottery, alphabet, result, seps, hashBuf) ==
    EncodeLoop(numbers, i + 1, lottery, alphabet,
               result \o hashBuf
                 \o (IF i < Len(numbers)
                     THEN << seps[((numbers[i] % (hashBuf[1] + (i - 1))) % Len(seps)) + 1] >>
                     ELSE << >>),
               seps)

EncodeNumber(numbers, i, lottery, alphabet, result, seps) ==
    EncodeAppend(numbers, i, lottery, alphabet, result, seps, hash(numbers[i], alphabet))

EncodeLoop(numbers, i, lottery, alphabet, result, seps) ==
    IF i > Len(numbers) THEN << result, alphabet >>
    ELSE EncodeNumber(numbers, i, lottery,
                      consistentShuffle(alphabet,
                                        Take(<< lottery >> \o idSalt \o alphabet, Len(alphabet))),
                      result, seps)

\* a result shorter than MinLength gets a guard in front and, if still shorter,
\* one behind
AddSecondGuard(result, guards, numbersHash) ==
    IF Len(result) >= MinLength THEN result
    ELSE result \o << guards[((numbersHash + result[3]) % Len(guards)) + 1] >>

AddGuards(result, guards, numbersHash) ==
    IF Len(result) >= MinLength THEN result
    ELSE AddSecondGuard(<< guards[((numbersHash + result[1]) % Len(guards)) + 1] >> \o result,
                        guards, numbersHash)

\* the while loop that pads a result shorter than MinLength with the halves of
\* the alphabet shuffled by itself and cuts it to MinLength around its middle
RECURSIVE EncodePad(_, _)
EncodePadCut(result, alphabet) ==
    EncodePad(IF Len(result) > MinLength
              THEN SubSeq(result, ((Len(result) - MinLength) \div 2) + 1,
                          ((Len(result) - MinLength) \div 2) + MinLength)
              ELSE result,
              alphabet)

EncodePadWith(result, alphabet) ==
    EncodePadCut(Drop(alphabet, Len(alphabet) \div 2) \o result
                   \o Take(alphabet, Len(alphabet) \div 2),
                 alphabet)

EncodePad(result, alphabet) ==
    IF Len(result) >= MinLength THEN result
    ELSE EncodePadWith(result, consistentShuffle(alphabet, alphabet))

EncodeFinish(data, numbersHash, looped) ==
    EncodePad(AddGuards(looped[1], data.guards, numbersHash), looped[2])

EncodeFrom(numbers, data, numbersHash, lottery) ==
    EncodeFinish(data, numbersHash,
                 EncodeLoop(numbers, 1, lottery, data.alphabet, << lottery >>, data.seps))

EncodeWith(numbers, data, numbersHash) ==
    EncodeFrom(numbers, data, numbersHash,
               data.alphabet[(numbersHash % Len(data.alphabet)) + 1])

\* EncodeInt64 (numbers non-empty and non-negative)
EncodeInt64(numbers) == EncodeWith(numbers, HashidData, NumbersHash(numbers, 1))

\* the loop of DecodeInt64WithError over the sub-hashes: the numbers, or << >>
\* (nil) as soon as one sub-hash holds a rune outside the alphabet
RECURSIVE DecodeLoop(_, _, _, _, _)
DecodeAppend(hashes, i, lottery, alphabet, result, n) ==
    IF ~n[1] THEN << >>
    ELSE DecodeLoop(hashes, i + 1, lottery, alphabet, Append(result, n[2]))

DecodeHash(hashes, i, lottery, alphabet, result) ==
    DecodeAppend(hashes, i, lottery, alphabet, result, unhash(hashes[i], alphabet))

DecodeLoop(hashes, i, lottery, alphabet, result) ==
    IF i > Len(hashes) THEN result
    ELSE DecodeHash(hashes, i, lottery,
                    consistentShuffle(alphabet,
                                      Take(<< lottery >> \o idSalt \o alphabet, Len(alphabet))),
                    result)

\* the piece between the guards: the second of two or three pieces, else the first
Breakdown(hashes) == hashes[IF Len(hashes) = 2 \/ Len(hashes) = 3 THEN 2 ELSE 1]

DecodeBreakdown(breakdown, data) ==
    IF Len(breakdown) = 0 THEN << >>
    ELSE DecodeLoop(splitRunes(Tail(breakdown), data.seps), 1,
                    Head(breakdown), data.alphabet, << >>)

DecodeWith(hashStr, data) ==
    DecodeBreakdown(Breakdown(splitRunes(hashStr, data.guards)), data)

\* DecodeInt64WithError, the numbers only: RetrievePaste drops the error, and on
\* a hash that does not re-encode to itself the numbers are returned with it
DecodeInt64WithError(hashStr) == DecodeWith(hashStr, HashidData)

(***************************************************************************)
(* Text of the counter record: strconv.ParseInt(strings.TrimSpace(..)) and *)
(* fmt.Sprint(int64)                                                       *)
(***************************************************************************)
IsSpace(c) == c \in {9, 10, 11, 12, 13, 32}

IsDigit(c) == c \in 48..57

RECURSIVE TrimLeft(_)
TrimLeft(s) == IF s # << >> /\ IsSpace(Head(s)) THEN TrimLeft(Tail(s)) ELSE s

RECURSIVE TrimRight(_)
TrimRight(s) ==
    IF s # << >> /\ IsSpace(s[Len(s)]) THEN TrimRight(SubSeq(s, 1, Len(s) - 1)) ELSE s

TrimSpace(s) == TrimRight(TrimLeft(s))

RECURSIVE DigitsValue(_, _)
DigitsValue(s, acc) ==
    IF s = << >> THEN acc ELSE DigitsValue(Tail(s), acc * 10 + (Head(s) - 48))

\* strconv.ParseInt(s, 10, 64): <<ok, value>>; a sign is allowed, digits are required
ParseInt(s) ==
    LET signed == s # << >> /\ Head(s) \in {43, 45}
        digits == IF signed THEN Tail(s) ELSE s
    IN IF digits = << >> \/ \E i \in 1..Len(digits) : ~IsDigit(digits[i])
       THEN << FALSE, 0 >>
       ELSE << TRUE, IF signed /\ Head(s) = 45 THEN 0 - DigitsValue(digits, 0)
                     ELSE DigitsValue(digits, 0) >>

\* fmt.Sprint(value) of a non-negative int64
RECURSIVE Sprint(_)
Sprint(value) ==
    IF value < 10 THEN << 48 + value >>
    ELSE Sprint(value \div 10) \o << 48 + (value % 10) >>

\* mutant of CounterValue: a record that is not a number reads as -1
CounterValueMinus(content) ==
    IF ParseInt(TrimSpace(content))[1] THEN ParseInt(TrimSpace(content))[2] ELSE 0 - 1

\* mutant of CounterValue: every record reads as 0
CounterValueZero(content) == 0

\* ReadCounter's value for the bytes read: unparseable text counts as 0
CounterValue(content) ==
    LET parsed == ParseInt(TrimSpace(content))
    IN IF parsed[1] THEN parsed[2] ELSE 0

\* mutant of WriteAtStart: the bytes are appended to the file
WriteAppended(old, b) == old \o b

\* file.Seek(0, 0) then file.Write(b) on a file opened without O_TRUNC: the bytes
\* of the old content beyond len(b) stay
WriteAtStart(old, b) == b \o Drop(old, Len(b))

(***************************************************************************)
(* Payload bytes in run-length form                                        *)
(***************************************************************************)
RECURSIVE BLen(_)
BLen(b) == IF b = << >> THEN 0 ELSE Head(b).n + BLen(Tail(b))

BCat(a, b) ==
    IF a = << >> THEN b
    ELSE IF b = << >> THEN a
    ELSE IF a[Len(a)].b = b[1].b
         THEN SubSeq(a, 1, Len(a) - 1)
              \o << [b |-> b[1].b, n |-> a[Len(a)].n + b[1].n] >> \o Tail(b)
         ELSE a \o b

RECURSIVE BDrop(_, _)
BDrop(b, k) ==
    IF k <= 0 \/ b = << >> THEN b
    ELSE IF Head(b).n <= k THEN BDrop(Tail(b), k - Head(b).n)
    ELSE << [b |-> Head(b).b, n |-> Head(b).n - k] >> \o Tail(b)

RECURSIVE BTake(_, _)
BTake(b, k) ==
    IF k <= 0 \/ b = << >> THEN << >>
    ELSE IF Head(b).n <= k THEN BCat(<< Head(b) >>, BTake(Tail(b), k - Head(b).n))
    ELSE << [b |-> Head(b).b, n |-> k] >>

\* mutant of BWriteAtStart: the payload is written as a C string, up to its
\* first zero byte
BWriteCString(old, b) ==
    LET text == IF \E i \in 1..Len(b) : b[i].b = 0
                THEN SubSeq(b, 1, (CHOOSE i \in 1..Len(b) :
                                      b[i].b = 0 /\ \A j \in 1..(i - 1) : b[j].b # 0) - 1)
                ELSE b
    IN BCat(text, BDrop(old, BLen(text)))

\* pasteFile.Write(b) at offset 0 of a file opened without O_TRUNC
BWriteAtStart(old, b) == BCat(b, BDrop(old, BLen(b)))

(***************************************************************************)
(* Bounds of the model                                                     *)
(***************************************************************************)
\* The model is run under three workloads.  "existing" starts the program on a
\* data directory that holds a record of an earlier run and a counter record
\* that stands at 9, is empty or is not a number; it has the plain request
\* bodies, IPv6 clients, MaxAllocs ordinals and the clock of MaxTimeStore ticks.
\* "store" exercises the paste store:
\* every request body and hash, MaxAllocs ordinals, a clock of MaxTimeStore
\* ticks (less than the cooldown).  "throttle" exercises RateLimit: a clock of
\* MaxTime ticks (more than the cooldown), MaxAllocsThrottle ordinals and the
\* plain request bodies.
MaxTime == 11

MaxTimeStore == 1

MaxAllocs == 2

MaxAllocsThrottle == 1

\* the request goroutines that can be in flight at once
Procs == {1, 2}

(***************************************************************************)
(* Inputs                                                                  *)
(***************************************************************************)
\* r.RemoteAddr values: "1:7" and an address without a port, "2", which
\* RateLimit lets through unchecked; "1:7" and "1:8" (one host, two connections)
RemoteAddrs == { << 49, 58, 55 >>, << 50 >> }

RemoteAddrsThrottle == { << 49, 58, 55 >>, << 49, 58, 56 >> }

\* net.JoinHostPort, by which the server forms r.RemoteAddr from the address
\* of the connection: a host that contains ":" is put in brackets
JoinHostPort(host, port) ==
    IF 58 \in Range(host) THEN << 91 >> \o host \o << 93, 58 >> \o port
    ELSE host \o << 58 >> \o port

\* two IPv6 clients, "::1" and "::2", each on port 7
ClientHostsExisting == { << 58, 58, 49 >>, << 58, 58, 50 >> }

RemoteAddrsExisting == { JoinHostPort(host, << 55 >>) : host \in ClientHostsExisting }

RemoteAddrsOf(w) ==
    IF w = "store" THEN RemoteAddrs
    ELSE IF w = "throttle" THEN RemoteAddrsThrottle
    ELSE RemoteAddrsExisting

\* strings.Split(s, ":")
SplitColon(s) == splitRunes(s, << 58 >>)

\* SplitColon over the addresses of the model, evaluated once
AddrParts ==
    [a \in RemoteAddrs \cup RemoteAddrsThrottle \cup RemoteAddrsExisting |-> SplitColon(a)]

Keys == { AddrParts[a][1] : a \in DOMAIN AddrParts }

\* payloads: "x\0", MaxBodyLen zero bytes, MaxBodyLen + 1 zero bytes
PayloadA == << [b |-> 120, n |-> 1], [b |-> 0, n |-> 1] >>

PayloadMax == << [b |-> 0, n |-> MaxBodyLen] >>

PayloadOver == << [b |-> 0, n |-> MaxBodyLen + 1] >>

\* A request body.  raw: the body is the payload.  multipart: head bytes come
\* before the content of the first part (boundary line and part headers), delim
\* bytes end it (the next boundary line), rest bytes follow (further parts);
\* parts = 0 is a body that closes without any part.
RawRequest(payload) ==
    [ctype |-> "raw", parts |-> 0, first |-> payload, head |-> 0, delim |-> 0, rest |-> 0]

MultipartRequest(parts, first, rest) ==
    [ctype |-> "multipart", parts |-> parts, first |-> first,
     head |-> 96, delim |-> 48, rest |-> rest]

Requests ==
    { RawRequest(PayloadA), RawRequest(<< >>),
      RawRequest(PayloadMax), RawRequest(PayloadOver),
      MultipartRequest(1, PayloadA, 0), MultipartRequest(1, << >>, 0),
      MultipartRequest(2, PayloadA, MaxBodyLen),
      MultipartRequest(1, PayloadMax, 0),
      MultipartRequest(0, << >>, 0) }

RequestsThrottle == { RawRequest(PayloadA), RawRequest(<< >>), RawRequest(PayloadOver) }

RequestsOf(w) == IF w = "store" THEN Requests ELSE RequestsThrottle

MaxTimeOf(w) == IF w = "throttle" THEN MaxTime ELSE MaxTimeStore

MaxAllocsOf(w) == IF w = "throttle" THEN MaxAllocsThrottle ELSE MaxAllocs

BodyLen(r) == r.head + BLen(r.first) + r.delim + r.rest

(***************************************************************************)
(* State                                                                   *)
(***************************************************************************)
VARIABLES
    now,          \* the clock, in ticks
    addrTimeMap,  \* main.go 58; a missing key reads as ZeroTime
    lock,         \* HttpRoutes.lock is held
    counterFile,  \* DataDir/counter.dat: [exists, data]
    pastes,       \* DataDir/pastes: file name <<ordinal, hash>> -> bytes
    pc,           \* where each goroutine is in its handler
    loc,          \* the handler's local variables
    last,         \* the response written by the step that led here, if any
                  \* (method "RESTART": that step was a restart)
    assigned,     \* history: the ordinals WriteCounter stored, in order
    created,      \* history: the pastes answered with 200, in order
    workload      \* "store", "throttle" or "existing": the bounds of this behaviour

vars ==
    << now, addrTimeMap, lock, counterFile, pastes, pc, loc, last, assigned, created,
       workload >>

\* the zero time.Time a missing key of addrTimeMap reads as, far before the
\* start of the process
ZeroTime == -1000000

NoLoc == [key |-> << >>, lastTime |-> 0, content |-> << >>, counter |-> 0, name |-> << >>]

NoResponse ==
    [method |-> "", status |-> 0, key |-> << >>, lastTime |-> 0, at |-> 0,
     retry |-> 0, ord |-> 0, hash |-> << >>, body |-> << >>]

\* DataDir/pastes without any record
EmptyDir == [name \in {} |-> << >>]

\* the memory of a process that has just started
InitMemory ==
    /\ now = 0
    /\ addrTimeMap = [k \in Keys |-> ZeroTime]
    /\ lock = FALSE
    /\ pc = [p \in Procs |-> "idle"]
    /\ loc = [p \in Procs |-> NoLoc]
    /\ last = NoResponse
    /\ assigned = << >>
    /\ created = << >>

\* a process started on an empty data directory
InitState ==
    /\ InitMemory
    /\ counterFile = [exists |-> FALSE, data |-> << >>]
    /\ pastes = EmptyDir

Init == InitState /\ workload = "store"

InitThrottle == InitState /\ workload = "throttle"

(***************************************************************************)
(* RateLimit (main.go 258-278)                                             *)
(***************************************************************************)
\* math.Ceil of a / b, b > 0
CeilDiv(a, b) == 0 - ((0 - a) \div b)

\* mutant of RetryAfter: the seconds are rounded down and one is added
RetryAfterFloor(lastTime, t) == (((lastTime + PasteCooldown) - t) \div TicksPerSecond) + 1

\* int64(math.Ceil(time.Until(lastTime.Add(PasteCooldown)).Seconds())) at clock t
RetryAfter(lastTime, t) == CeilDiv((lastTime + PasteCooldown) - t, TicksPerSecond)

\* mutant of AfterAllow: the time of an allowed submission is not recorded
AfterAllowUnrecorded(table, key, t) == table

\* addrTimeMap after an allowed submission: the entry is set to time.Now() (274)
AfterAllow(table, key, t) == [table EXCEPT ![key] = t]

\* mutant of AfterDeny: the time of every attempt is recorded
AfterDenyRecorded(table, key, t) == [table EXCEPT ![key] = t]

\* addrTimeMap after a denied submission: the handler returns at 272, before
\* the assignment of 274
AfterDeny(table, key, t) == table

Respond(p, r) ==
    /\ last' = r
    /\ pc' = [pc EXCEPT ![p] = "idle"]
    /\ loc' = [loc EXCEPT ![p] = NoLoc]

\* a POST arrives: the key is cut from the remote address and its entry is read
\* (260-262); an address without ":" goes to the handler unchecked
RlRead(p) ==
    /\ pc[p] = "idle"
    /\ \E addr \in RemoteAddrsOf(workload) :
         LET addrParts == AddrParts[addr]
         IN IF Len(addrParts) > 1
            THEN /\ pc' = [pc EXCEPT ![p] = "rl_check"]
                 /\ loc' = [loc EXCEPT ![p] = [NoLoc EXCEPT !.key = addrParts[1],
                                                            !.lastTime = addrTimeMap[addrParts[1]]]]
            ELSE /\ pc' = [pc EXCEPT ![p] = "cp_lock"]
                 /\ loc' = [loc EXCEPT ![p] = NoLoc]
    /\ last' = NoResponse
    /\ UNCHANGED << now, addrTimeMap, lock, counterFile, pastes, assigned, created, workload >>

\* the wait is computed from the clock and the submission is denied with 429 and
\* Retry-After, or let through (263-273)
RlCheck(p) ==
    /\ pc[p] = "rl_check"
    /\ LET retryAfter == RetryAfter(loc[p].lastTime, now)
       IN IF retryAfter > 0
          THEN /\ Respond(p, [NoResponse EXCEPT !.method = "POST", !.status = 429,
                                                !.key = loc[p].key,
                                                !.lastTime = loc[p].lastTime,
                                                !.at = now, !.retry = retryAfter])
               /\ addrTimeMap' = AfterDeny(addrTimeMap, loc[p].key, now)
          ELSE /\ pc' = [pc EXCEPT ![p] = "rl_write"]
               /\ loc' = [loc EXCEPT ![p] = [NoLoc EXCEPT !.key = loc[p].key]]
               /\ last' = NoResponse
               /\ UNCHANGED addrTimeMap
    /\ UNCHANGED << now, lock, counterFile, pastes, assigned, created, workload >>

\* addrTimeMap[addrParts[0]] = time.Now(), then fn(rw, r) (274-276)
RlWrite(p) ==
    /\ pc[p] = "rl_write"
    /\ addrTimeMap' = AfterAllow(addrTimeMap, loc[p].key, now)
    /\ pc' = [pc EXCEPT ![p] = "cp_lock"]
    /\ loc' = [loc EXCEPT ![p] = NoLoc]
    /\ last' = NoResponse
    /\ UNCHANGED << now, lock, counterFile, pastes, assigned, created, workload >>

(***************************************************************************)
(* CreatePaste (main.go 127-214)                                           *)
(***************************************************************************)
\* mutant of Finish: the handler answers without unlocking
FinishLocked(p, status) ==
    /\ UNCHANGED lock
    /\ Respond(p, [NoResponse EXCEPT !.method = "POST", !.status = status])

\* the deferred hr.lock.Unlock() and the answer of a handler that returns or
\* panics (128-142): the panic is recovered and answered with 500
Finish(p, status) ==
    /\ lock' = FALSE
    /\ Respond(p, [NoResponse EXCEPT !.method = "POST", !.status = status])

\* mutant of CanLock: a Lock() that never waits
CanLockAlways(held) == TRUE

\* hr.lock.Lock() returns once the mutex is free (141)
CanLock(held) == ~held

\* hr.lock.Lock() (141)
CpLock(p) ==
    /\ pc[p] = "cp_lock"
    /\ CanLock(lock)
    /\ lock' = TRUE
    /\ pc' = [pc EXCEPT ![p] = "cp_body"]
    /\ last' = NoResponse
    /\ UNCHANGED << now, addrTimeMap, counterFile, pastes, loc, assigned, created, workload >>

\* what the http.MaxBytesReader lets the handler read of the body (147): the
\* raw reader reads to the end of the body, the multipart reader to the end of
\* the delimiter that closes the first part
BytesRead(r) ==
    IF r.ctype = "multipart"
    THEN (IF r.parts = 0 THEN BodyLen(r) ELSE r.head + BLen(r.first) + r.delim)
    ELSE BodyLen(r)

TooLarge(r) == BytesRead(r) > MaxBodyLen

\* PasteFromMultipart / PasteFromBody (106-125, 151-156): [err, content]
ParseRequest(r) ==
    IF TooLarge(r) THEN [err |-> "http: request body too large", content |-> << >>]
    ELSE IF r.ctype = "multipart" /\ r.parts = 0
    THEN [err |-> "no parts in multipart body", content |-> << >>]
    ELSE [err |-> "", content |-> r.first]

\* mutant of IsEmpty: the check for an empty paste is missing
IsEmptyNever(content) == FALSE

\* len(pasteContent) == 0 (167)
IsEmpty(content) == BLen(content) = 0

\* the body of request r is read and checked (146-171)
CpBodyOf(p, r) ==
    /\ pc[p] = "cp_body"
    /\ LET parsed == ParseRequest(r)
       IN IF parsed.err = "http: request body too large" THEN Finish(p, 413)
          ELSE IF parsed.err # "" THEN Finish(p, 500)
          ELSE IF IsEmpty(parsed.content) THEN Finish(p, 400)
          ELSE /\ pc' = [pc EXCEPT ![p] = "cp_read_counter"]
               /\ loc' = [loc EXCEPT ![p] = [NoLoc EXCEPT !.content = parsed.content]]
               /\ last' = NoResponse
                 /\ UNCHANGED lock
    /\ UNCHANGED << now, addrTimeMap, counterFile, pastes, assigned, created, workload >>

CpBody(p) == \E r \in RequestsOf(workload) : CpBodyOf(p, r)

\* os.OpenFile(counter.dat, O_CREATE|O_RDWR) and ReadCounter (173-183): the open
\* creates a missing file; the open or the read may fail
CpReadCounter(p) ==
    /\ pc[p] = "cp_read_counter"
    /\ \E failed \in {"", "open", "read"} :
         IF failed = "open"
         THEN Finish(p, 500) /\ UNCHANGED counterFile
         ELSE /\ counterFile' = [counterFile EXCEPT !.exists = TRUE]
              /\ IF failed = "read"
                 THEN Finish(p, 500)
                 ELSE /\ pc' = [pc EXCEPT ![p] = "cp_write_counter"]
                      /\ loc' = [loc EXCEPT ![p].counter = CounterValue(counterFile.data)]
                      /\ last' = NoResponse
                      /\ UNCHANGED lock
    /\ UNCHANGED << now, addrTimeMap, pastes, assigned, created, workload >>

\* mutant of NextOrdinal: the increment is lost
NextOrdinalSame(counter) == counter

\* counter++ (184)
NextOrdinal(counter) == counter + 1

\* mutant of CpWriteCounter: the counter record is not written before the
\* paste record is opened
CpWriteCounterLater(p) ==
    /\ pc[p] = "cp_write_counter"
    /\ Len(assigned) < MaxAllocsOf(workload)
    /\ assigned' = Append(assigned, NextOrdinal(loc[p].counter))
    /\ pc' = [pc EXCEPT ![p] = "cp_open_paste"]
    /\ loc' = [loc EXCEPT ![p].counter = NextOrdinal(loc[p].counter)]
    /\ last' = NoResponse
    /\ UNCHANGED << now, addrTimeMap, lock, counterFile, pastes, created, workload >>

\* counter++ and WriteCounter (184-187); a failed write leaves the file as it was
CpWriteCounter(p) ==
    /\ pc[p] = "cp_write_counter"
    /\ \E failed \in BOOLEAN :
         LET counter == NextOrdinal(loc[p].counter)
         IN IF failed \/ Len(assigned) >= MaxAllocsOf(workload)
            THEN Finish(p, 500) /\ UNCHANGED << counterFile, assigned >>
            ELSE /\ counterFile' = [counterFile EXCEPT
                                      !.data = WriteAtStart(@, Sprint(counter))]
                 /\ assigned' = Append(assigned, counter)
                 /\ pc' = [pc EXCEPT ![p] = "cp_open_paste"]
                 /\ loc' = [loc EXCEPT ![p].counter = counter]
                 /\ last' = NoResponse
                 /\ UNCHANGED lock
    /\ UNCHANGED << now, addrTimeMap, pastes, created, workload >>

\* mutant of PasteName: the record is named by the ordinal that follows
PasteNameNext(counter, hashStr) == << counter + 1, hashStr >>

\* the file name fmt.Sprintf("pastes/%09d_%s", counter, hash) as the pair it is
\* made of, and the length of the name
PasteName(counter, hashStr) == << counter, hashStr >>

NameLen(name) ==
    (IF name[1] < 0 THEN 1 + Len(Sprint(0 - name[1]))
     ELSE IF Len(Sprint(name[1])) < 9 THEN 9 ELSE Len(Sprint(name[1])))
    + 1 + Len(name[2])

\* NAME_MAX of the file system of DataDir: a longer name fails to open with
\* ENAMETOOLONG
NameMax == 255

\* EncodeInt64 and os.OpenFile(pastes/..., O_CREATE|O_WRONLY) (189-201): a
\* missing file is created empty, an existing one is opened as it is
CpOpenPaste(p) ==
    /\ pc[p] = "cp_open_paste"
    /\ \E opened \in BOOLEAN :
         LET name == PasteName(loc[p].counter, EncodeInt64(<< loc[p].counter >>))
         IN IF opened /\ NameLen(name) <= NameMax
            THEN /\ pastes' = [n \in DOMAIN pastes \cup {name} |->
                                 IF n \in DOMAIN pastes THEN pastes[n] ELSE << >>]
                 /\ pc' = [pc EXCEPT ![p] = "cp_write_paste"]
                 /\ loc' = [loc EXCEPT ![p].name = name]
                 /\ last' = NoResponse
                 /\ UNCHANGED lock
            ELSE Finish(p, 500) /\ UNCHANGED pastes
    /\ UNCHANGED << now, addrTimeMap, counterFile, assigned, created, workload >>

\* the lengths a failing write may have written before its error
PartialLens == {0}

\* pasteFile.Write(pasteContent) (203-205)
CpWritePaste(p) ==
    /\ pc[p] = "cp_write_paste"
    /\ \/ /\ pastes' = [pastes EXCEPT ![loc[p].name] = BWriteAtStart(@, loc[p].content)]
          /\ pc' = [pc EXCEPT ![p] = "cp_respond"]
          /\ last' = NoResponse
          /\ UNCHANGED << lock, loc >>
       \/ \E k \in PartialLens :
            /\ pastes' = [pastes EXCEPT
                            ![loc[p].name] = BWriteAtStart(@, BTake(loc[p].content, k))]
            /\ Finish(p, 500)
    /\ UNCHANGED << now, addrTimeMap, counterFile, assigned, created, workload >>

\* the URL of the paste is answered with 200 and the handler returns (207-214)
CpRespond(p) ==
    /\ pc[p] = "cp_respond"
    /\ lock' = FALSE
    /\ Respond(p, [NoResponse EXCEPT !.method = "POST", !.status = 200,
                                     !.ord = loc[p].counter, !.hash = loc[p].name[2],
                                     !.body = loc[p].content])
    /\ created' = Append(created, [ord |-> loc[p].counter, id |-> loc[p].name[2],
                                   payload |-> loc[p].content])
    /\ UNCHANGED << now, addrTimeMap, counterFile, pastes, assigned, workload >>

(***************************************************************************)
(* RetrievePaste (main.go 216-256)                                         *)
(***************************************************************************)
\* "ddd...d", 246 runes: with the "%09d_" before it the file name has 256 bytes
LongHash == [i \in 1..246 |-> 100]

\* the {hash} of a GET: the identifiers of the first ordinals, "d" (decodes to
\* nothing) and LongHash
Hashes == { EncodeInt64(<< n >>) : n \in 1..MaxAllocs } \cup { << 100 >>, LongHash }

\* the identifiers of the first ordinals and "zzz" (decodes to 275, which does
\* not encode to "zzz")
HashesThrottle ==
    { EncodeInt64(<< n >>) : n \in 1..(MaxAllocsThrottle + 1) } \cup { << 122, 122, 122 >> }

HashesOf(w) == IF w = "store" THEN Hashes ELSE HashesThrottle

\* the file name RetrievePaste opens for a hash (233-238)
LookupName(hashStr) ==
    LET counters == DecodeInt64WithError(hashStr)
    IN PasteName(IF Len(counters) = 0 THEN 0 ELSE counters[1], hashStr)

\* LookupName over the hashes of the model, evaluated once
LookupNames == [h \in Hashes \cup HashesThrottle |-> LookupName(h)]

NameOf(hashStr) ==
    IF hashStr \in DOMAIN LookupNames THEN LookupNames[hashStr] ELSE LookupName(hashStr)

\* DecodeInt64WithError over the hashes of the model, evaluated once
DecodedHashes == [h \in Hashes \cup HashesThrottle |-> DecodeInt64WithError(h)]

\* EncodeInt64 over the first ordinals, evaluated once
EncodedOrdinals == [n \in 0..(MaxAllocs + 1) |-> EncodeInt64(<< n >>)]

EncodedOf(counter) ==
    IF counter \in DOMAIN EncodedOrdinals THEN EncodedOrdinals[counter]
    ELSE EncodeInt64(<< counter >>)

DecodedOf(hashStr) ==
    IF hashStr \in DOMAIN DecodedHashes THEN DecodedHashes[hashStr]
    ELSE DecodeInt64WithError(hashStr)

\* os.OpenFile(.., O_RDONLY) (237-247): "ok", "notexist" or another error
OpenForRead(name, dir) ==
    IF NameLen(name) > NameMax THEN "error"
    ELSE IF name \notin DOMAIN dir THEN "notexist"
    ELSE "ok"

\* a GET arrives and the file of its hash is opened (226-247)
RpOpen(p) ==
    /\ pc[p] = "idle"
    /\ \E hashStr \in HashesOf(workload) :
         LET name   == NameOf(hashStr)
             opened == OpenForRead(name, pastes)
         IN IF opened = "notexist"
            THEN Respond(p, [NoResponse EXCEPT !.method = "GET", !.status = 404,
                                               !.hash = hashStr])
            ELSE IF opened # "ok"
            THEN Respond(p, [NoResponse EXCEPT !.method = "GET", !.status = 500,
                                               !.hash = hashStr])
            ELSE /\ pc' = [pc EXCEPT ![p] = "rp_read"]
                 /\ loc' = [loc EXCEPT ![p] = [NoLoc EXCEPT !.name = name]]
                 /\ last' = NoResponse
    /\ UNCHANGED << now, addrTimeMap, lock, counterFile, pastes, assigned, created, workload >>

\* ioutil.ReadAll(pasteFile) and the answer (249-255)
RpRead(p) ==
    /\ pc[p] = "rp_read"
    /\ Respond(p, [NoResponse EXCEPT !.method = "GET", !.status = 200,
                                     !.hash = loc[p].name[2],
                                     !.body = pastes[loc[p].name]])
    /\ UNCHANGED << now, addrTimeMap, lock, counterFile, pastes, assigned, created, workload >>

(***************************************************************************)
(* The environment                                                         *)
(***************************************************************************)
Tick ==
    /\ now < MaxTimeOf(workload)
    /\ now' = now + 1
    /\ last' = NoResponse
    /\ UNCHANGED << addrTimeMap, lock, counterFile, pastes, pc, loc, assigned, created, workload >>

\* the process dies (a crash, a kill, the runtime's fatal error on concurrent
\* map writes) and is started again: the files stay, the memory does not
Restart ==
    /\ addrTimeMap' = [k \in Keys |-> ZeroTime]
    /\ lock' = FALSE
    /\ pc' = [p \in Procs |-> "idle"]
    /\ loc' = [p \in Procs |-> NoLoc]
    /\ last' = [NoResponse EXCEPT !.method = "RESTART"]
    /\ UNCHANGED << now, counterFile, pastes, assigned, created, workload >>

\* the counter records a process may find at its start: "9", an empty file
\* (the file was created and the process stopped before the first write), "zz"
CounterRecords == { Sprint(9), << >>, << 122, 122 >> }

\* pastes/ with the record of ordinal 1 of an earlier run, which holds "yyy"
ExistingDir == [name \in { PasteName(1, EncodeInt64(<< 1 >>)) } |-> << [b |-> 121, n |-> 3] >>]

InitExisting ==
    /\ InitMemory
    /\ counterFile \in { [exists |-> TRUE, data |-> d] : d \in CounterRecords }
    /\ pastes = ExistingDir
    /\ workload = "existing"

Next ==
    \/ \E p \in Procs : RlRead(p)
    \/ \E p \in Procs : RlCheck(p)
    \/ \E p \in Procs : RlWrite(p)
    \/ \E p \in Procs : CpLock(p)
    \/ \E p \in Procs : CpBody(p)
    \/ \E p \in Procs : CpReadCounter(p)
    \/ \E p \in Procs : CpWriteCounter(p)
    \/ \E p \in Procs : CpOpenPaste(p)
    \/ \E p \in Procs : CpWritePaste(p)
    \/ \E p \in Procs : CpRespond(p)
    \/ \E p \in Procs : RpOpen(p)
    \/ \E p \in Procs : RpRead(p)
    \/ Tick
    \/ Restart

Spec == Init /\ [][Next]_vars

SpecThrottle == InitThrottle /\ [][Next]_vars

SpecExisting == InitExisting /\ [][Next]_vars

(***************************************************************************)
(* What a GET of a hash is answered with when RetrievePaste runs through   *)
(* without another step in between (216-256): <<status, body>>             *)
(***************************************************************************)
RetrieveResult(hashStr) ==
    LET name   == NameOf(hashStr)
        opened == OpenForRead(name, pastes)
    IN IF opened = "ok" THEN << 200, pastes[name] >>
       ELSE IF opened = "notexist" THEN << 404, << >> >>
       ELSE << 500, << >> >>

\* the goroutines that hold an ordinal they took from the counter
HoldsOrdinal(p) == pc[p] \in {"cp_open_paste", "cp_write_paste", "cp_respond"}

StoreUnchanged == UNCHANGED << counterFile, pastes, assigned, created >>

IssuedIds == { created[i].id : i \in 1..Len(created) }

(***************************************************************************)
(* Claims                                                                  *)
(***************************************************************************)

\* C1: concurrent CreatePaste requests that succeed receive pairwise distinct
\* ordinals, identifiers and record paths, and no two requests hold the same
\* counter value and write records for it.
C1_DistinctOrdinals ==
    /\ \A i, j \in 1..Len(created) :
         i # j => /\ created[i].ord # created[j].ord
                  /\ created[i].id # created[j].id
                  /\ PasteName(created[i].ord, created[i].id)
                       # PasteName(created[j].ord, created[j].id)
    /\ \A p \in Procs :
         HoldsOrdinal(p) =>
           /\ \A i \in 1..Len(created) : created[i].ord # loc[p].counter
           /\ \A q \in Procs \ {p} : HoldsOrdinal(q) => loc[q].counter # loc[p].counter

\* two requests have succeeded, the second one while a third was waiting for
\* the lock
C1_Witness ==
    /\ Len(created) = 2
    /\ last.method = "POST" /\ last.status = 200
    /\ \E q \in Procs : pc[q] = "cp_lock"

\* C2: once CreatePaste has answered 200 with identifier i for payload p, a GET
\* of i is answered 200 with exactly the bytes of p.
C2_RoundTrip ==
    /\ \A i \in 1..Len(created) :
         RetrieveResult(created[i].id) = << 200, created[i].payload >>
    /\ \A i \in 1..Len(created) :
         (last.method = "GET" /\ last.hash = created[i].id)
           => (last.status = 200 /\ last.body = created[i].payload)

\* a GET has just served a stored payload of exactly MaxBodyLen bytes
C2_Witness ==
    /\ last.method = "GET" /\ last.status = 200
    /\ BLen(last.body) = MaxBodyLen
    /\ \E i \in 1..Len(created) :
         created[i].id = last.hash /\ created[i].payload = last.body

\* C3 (as claimed): of two submissions of one client key that are in RateLimit
\* at the same time, at most one is let through.
C3_AtMostOneAllowed ==
    \A p, q \in Procs :
      (p # q /\ pc[p] = "rl_write" /\ pc[q] = "rl_write") => loc[p].key # loc[q].key

\* C4 (as claimed): an attempt whose wait is computed at a time strictly inside
\* (T, T+W), T being the recorded time of the client's last allowed submission,
\* is denied; at T+W or later, or without an entry, it is allowed.
C4_CooldownWindow ==
    [][\A p \in Procs :
         RlCheck(p) =>
           LET T == addrTimeMap[loc[p].key]
           IN /\ (T # ZeroTime /\ T < now /\ now < T + PasteCooldown)
                   => last'.status = 429
              /\ (T = ZeroTime \/ now >= T + PasteCooldown)
                   => pc'[p] = "rl_write"]_vars

\* C5: the persisted counter never decreases, and every ordinal WriteCounter
\* stores is strictly greater than every ordinal stored before it, restarts
\* included.
C5_OrdinalsIncrease ==
    [][/\ counterFile' # counterFile =>
            CounterValue(counterFile'.data) >= CounterValue(counterFile.data)
       /\ assigned' # assigned =>
            /\ Len(assigned') = Len(assigned) + 1
            /\ \A i \in 1..Len(assigned) : assigned'[Len(assigned')] > assigned[i]
            /\ assigned'[Len(assigned')] = CounterValue(counterFile'.data)
       /\ created' # created =>
            /\ Len(created') = Len(created) + 1
            /\ \A i \in 1..Len(created) : created'[Len(created')].ord > created[i].ord]_vars

\* the process has just been restarted with ordinals stored and room for more
C5_Witness ==
    /\ last.method = "RESTART"
    /\ Len(assigned) >= 1 /\ Len(assigned) < MaxAllocsOf(workload)
    /\ CounterValue(counterFile.data) = assigned[Len(assigned)]

\* the requests that parse without an error and carry an empty paste
EmptyRequests ==
    { r \in Requests : ParseRequest(r).err = "" /\ BLen(ParseRequest(r).content) = 0 }

\* C6: CreatePaste with an empty payload answers 400 and leaves the store as
\* it was: no step that takes a POST from its arrival through the check of
\* its body reads, creates or advances the counter record or creates a paste
\* record, and the check of an empty paste ends the request with 400.
C6_EmptyPayload ==
    [][\A p \in Procs :
         /\ (\/ pc[p] = "idle" /\ pc'[p] \in {"rl_check", "cp_lock"}
             \/ pc[p] \in {"rl_check", "rl_write", "cp_lock", "cp_body"} /\ pc'[p] # pc[p])
              => StoreUnchanged
         /\ pc[p] = "cp_body" =>
              \A r \in EmptyRequests :
                CpBodyOf(p, r) => /\ last'.method = "POST" /\ last'.status = 400
                                  /\ pc'[p] = "idle"
                                  /\ StoreUnchanged]_vars

\* an empty paste has been answered 400 and there is still no counter record
C6_Witness ==
    /\ last.method = "POST" /\ last.status = 400
    /\ ~counterFile.exists
    /\ DOMAIN pastes = {}

\* C7 (as claimed): a GET of an identifier that was never issued, or that the
\* codec does not decode, is answered 404.
C7_UnknownIsNotFound ==
    (last.method = "GET" /\ last.hash \notin IssuedIds) => last.status = 404

\* C8 (as claimed): for a denied attempt at t2 that read the entry T, the value
\* reported is strictly smaller than the value RetryAfter(T, t1) of a denied
\* attempt at any earlier t1 inside (T, T+W).
C8_StrictlyDecreases ==
    (last.method = "POST" /\ last.status = 429) =>
      \A t1 \in (last.lastTime + 1)..(last.at - 1) :
        RetryAfter(last.lastTime, t1) > last.retry

\* C8 (amended): the value reported is the remaining wait rounded up to whole
\* seconds; it is never larger than the value of an earlier denied attempt
\* that read the same entry, and strictly smaller when at least a second lies
\* between the two.
C8_RoundedUpNonIncreasing ==
    (last.method = "POST" /\ last.status = 429) =>
      LET remaining == (last.lastTime + PasteCooldown) - last.at
      IN /\ remaining > 0
         /\ (last.retry - 1) * TicksPerSecond < remaining
         /\ remaining <= last.retry * TicksPerSecond
         /\ \A t1 \in (last.lastTime + 1)..(last.at - 1) :
              /\ RetryAfter(last.lastTime, t1) >= last.retry
              /\ (last.at - t1 >= TicksPerSecond)
                   => RetryAfter(last.lastTime, t1) > last.retry

\* an attempt is denied with the same value as an attempt one tick earlier
C8_Witness ==
    /\ last.method = "POST" /\ last.status = 429
    /\ last.at - 1 > last.lastTime
    /\ RetryAfter(last.lastTime, last.at - 1) = last.retry

\* C9: a submission denied with 429 changes no state: the throttle entry, the
\* counter and the paste records stay as they are and the paste handler is not
\* entered.
C9_DeniedChangesNothing ==
    [][\A p \in Procs :
         (RlCheck(p) /\ last'.status = 429)
           => /\ addrTimeMap' = addrTimeMap
              /\ StoreUnchanged
              /\ lock' = lock
              /\ pc'[p] = "idle"]_vars

\* a submission has been denied inside the window and the entry is the time of
\* the allowed one
C9_Witness ==
    /\ last.method = "POST" /\ last.status = 429
    /\ last.at > last.lastTime
    /\ addrTimeMap[last.key] = last.lastTime

\* C10 (as claimed): a body of more than MaxBodyLen bytes is answered 413 and
\* allocates nothing; a payload of exactly MaxBodyLen bytes is accepted.
C10_BodyLimit ==
    [][\A p \in Procs : \A r \in Requests :
         CpBodyOf(p, r) =>
           /\ BodyLen(r) > MaxBodyLen
                => (last'.status = 413 /\ pc'[p] = "idle" /\ StoreUnchanged)
           /\ BLen(r.first) = MaxBodyLen
                => pc'[p] = "cp_read_counter"]_vars

\* the goroutines that are between hr.lock.Lock() and the deferred Unlock()
InHandler(p) ==
    pc[p] \in {"cp_body", "cp_read_counter", "cp_write_counter",
               "cp_open_paste", "cp_write_paste", "cp_respond"}

\* the record files of the pastes that were answered 200
CreatedNames == { PasteName(created[i].ord, created[i].id) : i \in 1..Len(created) }

\* the ordinal the counter record stands at
PersistedCounter == CounterValue(counterFile.data)

\* C11: a CreatePaste that fails at an I/O step is answered 500 and leaves the
\* store usable: the lock is held only while some request is in the handler,
\* the counter record still reads as the last ordinal stored, no ordinal is
\* stored twice (a lost ordinal is never handed out again), and the record of
\* the next ordinal does not exist yet.
C11_FailureIsolated ==
    /\ lock <=> \E p \in Procs : InHandler(p)
    /\ (last.method = "POST" /\ last.status = 500) => ~lock
    /\ LET counter == PersistedCounter
       IN /\ counter = (IF assigned = << >> THEN 0 ELSE assigned[Len(assigned)])
          /\ \A name \in DOMAIN pastes : name[1] # NextOrdinal(counter)
    /\ \A i, j \in 1..Len(assigned) : i # j => assigned[i] # assigned[j]

\* ordinal 1 was lost to a failed or interrupted content write (its record is
\* empty) and a later CreatePaste has just succeeded with ordinal 2
C11_Witness ==
    /\ last.method = "POST" /\ last.status = 200 /\ last.ord = 2
    /\ Len(created) = 1
    /\ \E name \in DOMAIN pastes : name[1] = 1 /\ pastes[name] = << >>

\* C12: within CreatePaste the incremented ordinal is in the counter record
\* before the paste record is created or written, and the identifier is
\* answered only after the content is written: every record on disk and every
\* ordinal a request holds is one the counter record already covers, and a 200
\* names a record that holds the payload.
C12_CounterBeforeRecord ==
    /\ LET counter == PersistedCounter
       IN /\ \A name \in DOMAIN pastes :
               name[1] <= counter /\ name[1] \in Range(assigned)
          /\ \A p \in Procs : HoldsOrdinal(p) => loc[p].counter = counter
    /\ (last.method = "POST" /\ last.status = 200) =>
         /\ PasteName(last.ord, last.hash) \in DOMAIN pastes
         /\ pastes[PasteName(last.ord, last.hash)] = last.body

\* the process stopped after the counter write and before the paste record
\* was created: ordinal 1 is burnt
C12_Witness ==
    /\ last.method = "RESTART"
    /\ assigned = << 1 >> /\ PersistedCounter = 1
    /\ DOMAIN pastes = {} /\ created = << >>

\* C13: the record of a paste that was answered 200 keeps its payload, and no
\* later CreatePaste opens or writes it: a request about to open a record finds
\* no file of that name, and a request writing a record writes none of the
\* pastes answered before.
C13_Immutable ==
    /\ \A i \in 1..Len(created) :
         /\ PasteName(created[i].ord, created[i].id) \in DOMAIN pastes
         /\ pastes[PasteName(created[i].ord, created[i].id)] = created[i].payload
    /\ \A p \in Procs :
         /\ pc[p] = "cp_open_paste" =>
              PasteName(loc[p].counter, EncodedOf(loc[p].counter)) \notin DOMAIN pastes
         /\ pc[p] \in {"cp_write_paste", "cp_respond"} => loc[p].name \notin CreatedNames

\* after a second paste with another payload was stored, the first one has
\* just been served
C13_Witness ==
    /\ Len(created) = 2
    /\ created[1].payload # created[2].payload
    /\ last.method = "GET" /\ last.status = 200
    /\ last.hash = created[1].id /\ last.body = created[1].payload

\* C14 (as claimed): a request whose body is being read or checked does not
\* hold the allocation lock.
C14_BodyReadUnlocked ==
    \A p \in Procs : pc[p] = "cp_body" => ~lock

\* C15 (as claimed): a GET that is answered 200 returns the complete payload of
\* a CreatePaste that succeeded.
C15_NoPartialRecord ==
    (last.method = "GET" /\ last.status = 200) =>
      \E i \in 1..Len(created) :
        created[i].id = last.hash /\ created[i].payload = last.body

\* C18: every paste record is named by an ordinal and the identifier that is
\* the encoding of that ordinal, the identifier decodes to that ordinal, and
\* no record has an ordinal greater than the counter record.
C18_RecordNames ==
    LET counter == PersistedCounter
    IN \A name \in DOMAIN pastes :
         /\ name[2] = EncodedOf(name[1])
         /\ DecodedOf(name[2]) = << name[1] >>
         /\ name[1] >= 1 /\ name[1] <= counter

\* two records exist, one of them empty
C18_Witness ==
    /\ Cardinality(DOMAIN pastes) = 2
    /\ \E name \in DOMAIN pastes : pastes[name] = << >>
    /\ \E name \in DOMAIN pastes : name[1] = PersistedCounter

\* the keys RateLimit uses for the addresses of the workload
ThrottleKeys ==
    { AddrParts[a][1] : a \in { b \in RemoteAddrsOf(workload) : Len(AddrParts[b]) > 1 } }

Unparseable(content) == ~ParseInt(TrimSpace(content))[1]

\* C16: when WriteCounter stores v over a record that was empty or held exactly
\* the decimal text of a smaller non-negative ordinal, the record then holds
\* exactly the decimal text of v and ReadCounter returns v, also when v has
\* more digits than the ordinal before it.
C16_CounterRoundTrip ==
    [][(assigned' # assigned
         /\ (counterFile.data = << >>
              \/ (PersistedCounter >= 0 /\ counterFile.data = Sprint(PersistedCounter)
                   /\ PersistedCounter < assigned'[Len(assigned')])))
        => /\ counterFile'.data = Sprint(assigned'[Len(assigned')])
           /\ CounterValue(counterFile'.data) = assigned'[Len(assigned')]]_vars

\* the record that held "9" holds "10"
C16_Witness ==
    /\ assigned = << 10 >>
    /\ counterFile.data = << 49, 48 >>
    /\ PersistedCounter = 10

\* C17 (as claimed): the key under which RateLimit throttles a submission is
\* the host of its client.
C17_KeyIsHost ==
    \A p \in Procs :
      pc[p] \in {"rl_check", "rl_write"} => loc[p].key \in ClientHostsExisting

\* C20: a counter record that is not a decimal number is read as 0 without an
\* error: the request goes on with counter 0, stores ordinal 1, opens the
\* record of ordinal 1 without changing any record that exists, and writes its
\* payload from offset 0, the bytes of an older record beyond it staying.
C20_GarbageReadsAsZero ==
    [][\A p \in Procs :
         /\ (pc[p] = "cp_read_counter" /\ pc'[p] = "cp_write_counter"
               /\ Unparseable(counterFile.data))
              => loc'[p].counter = 0
         /\ (pc[p] = "cp_write_counter" /\ pc'[p] = "cp_open_paste" /\ loc[p].counter = 0)
              => /\ loc'[p].counter = 1
                 /\ assigned' = Append(assigned, 1)
         /\ (pc[p] = "cp_open_paste" /\ pc'[p] = "cp_write_paste" /\ loc[p].counter = 1)
              => /\ loc'[p].name = PasteName(1, EncodedOf(1))
                 /\ \A name \in DOMAIN pastes :
                      name \in DOMAIN pastes' /\ pastes'[name] = pastes[name]
         /\ (pc[p] = "cp_write_paste" /\ pc'[p] = "cp_respond")
              => pastes'[loc[p].name]
                   = BCat(loc[p].content,
                          BDrop(pastes[loc[p].name], BLen(loc[p].content)))]_vars

\* on a counter record that is not a number a paste was answered 200 with
\* ordinal 1, and the record of ordinal 1 holds its two bytes followed by the
\* third byte of the older record
C20_Witness ==
    /\ last.method = "POST" /\ last.status = 200 /\ last.ord = 1
    /\ Unparseable(counterFile.data)
    /\ pastes[PasteName(1, EncodedOf(1))] = PayloadA \o << [b |-> 121, n |-> 1] >>

====
